---- MODULE Spec2Model ----
(***************************************************************************)
(* The "open" command pair of the stream protocol codec                    *)
(* (protocol/src/commands/open.rs): OpenCommand and OpenResponse, their    *)
(* Encoder and Decoder implementations, and the primitive codec they call. *)
(*                                                                         *)
(* A byte is a number in 0..255, a byte slice is a sequence of bytes.  A   *)
(* String is a sequence of code points; its wire form and its len() are    *)
(* those of its UTF-8 bytes.  A HashMap<String, String> is a function from *)
(* a finite set of keys to values; the order in which it is iterated is    *)
(* not part of its value.                                                  *)
(***************************************************************************)
EXTENDS Integers, Sequences, FiniteSets, TLC

VARIABLES
    value,      \* the OpenCommand or OpenResponse under test
    size,       \* what value.encoded_size() returned, once called
    sink,       \* the writers: sink[i] is the buffer of the i-th encode call
    input,      \* the byte slice handed to decode, and how it was built
    decoded     \* what decode returned

vars == <<value, size, sink, input, decoded>>

-----------------------------------------------------------------------------
(* Bounds of the model *)

MaxTextLen == 2     \* characters in a virtual-host name
MaxPairs == 2       \* entries in connection_properties
MaxAccepts == 2     \* writes a closing sink accepts before it refuses

-----------------------------------------------------------------------------
(* Values *)

\* Code points used in texts: 'a' (one UTF-8 byte) and U+00E9 (two bytes).
Chars == {97, 233}

Texts(n) == UNION {[1..k -> Chars] : k \in 0..n}

\* 1 is the id of the tests; 16909060 = 0x01020304 has four different bytes.
CorrelationIds == {1, 16909060}

\* The response-code table: variant |-> numeric value on the wire.
ResponseCodeTable ==
    [Ok |-> 1, StreamDoesNotExist |-> 2, AccessRefused |-> 16]

ResponseCodes == DOMAIN ResponseCodeTable

KnownCodeValues == {ResponseCodeTable[c] : c \in ResponseCodes}

\* 16-bit values that are in no row of the table.
UnknownCodeValues == {0, 65535}

MapKeys == {<<>>, <<97>>, <<233>>}
MapValues == {<<97>>, <<233, 97>>}

HashMaps ==
    UNION {[K -> MapValues] :
             K \in {S \in SUBSET MapKeys : Cardinality(S) <= MaxPairs}}

OpenCommands ==
    [shape : {"OpenCommand"},
     correlation_id : CorrelationIds,
     virtual_host : Texts(MaxTextLen)]

OpenResponses ==
    [shape : {"OpenResponse"},
     correlation_id : CorrelationIds,
     code : ResponseCodes,
     connection_properties : HashMaps]

-----------------------------------------------------------------------------
(* Bytes *)

\* v as `width` bytes, most significant first.
RECURSIVE BigEndian(_, _)
BigEndian(v, width) ==
    IF width = 0 THEN <<>>
    ELSE Append(BigEndian(v \div 256, width - 1), v % 256)

\* The number a big-endian byte sequence stands for.
RECURSIVE FromBigEndian(_)
FromBigEndian(bytes) ==
    IF bytes = <<>> THEN 0
    ELSE FromBigEndian(SubSeq(bytes, 1, Len(bytes) - 1)) * 256
           + bytes[Len(bytes)]

Utf8Char(c) == IF c < 128 THEN <<c>> ELSE <<192 + (c \div 64), 128 + (c % 64)>>

\* str::as_bytes(): the UTF-8 bytes of a text (code points below 2048).
RECURSIVE Utf8(_)
Utf8(s) == IF s = <<>> THEN <<>> ELSE Utf8Char(Head(s)) \o Utf8(Tail(s))

\* String::from_utf8() on one- and two-byte sequences.
RECURSIVE FromUtf8(_)
FromUtf8(bytes) ==
    IF bytes = <<>> THEN [ok |-> TRUE, s |-> <<>>]
    ELSE IF bytes[1] < 128
    THEN LET r == FromUtf8(Tail(bytes))
         IN  IF r.ok THEN [ok |-> TRUE, s |-> <<bytes[1]>> \o r.s] ELSE r
    ELSE IF /\ bytes[1] >= 194 /\ bytes[1] <= 223 /\ Len(bytes) >= 2
            /\ bytes[2] >= 128 /\ bytes[2] <= 191
    THEN LET r == FromUtf8(Tail(Tail(bytes)))
         IN  IF r.ok
             THEN [ok |-> TRUE,
                   s |-> <<(bytes[1] - 192) * 64 + (bytes[2] - 128)>> \o r.s]
             ELSE r
    ELSE [ok |-> FALSE, s |-> <<>>]

Drop(bytes, n) == SubSeq(bytes, n + 1, Len(bytes))
Take(bytes, n) == SubSeq(bytes, 1, n)

-----------------------------------------------------------------------------
(* The sink: impl std::io::Write *)

Sinks == {1, 2}

\* A Vec<u8> accepts every write; a closing transport accepts `accepts`
\* more writes and refuses from then on.
SinkKinds ==
    {[kind |-> "Vec", accepts |-> 0]}
      \cup {[kind |-> "Closing", accepts |-> n] : n \in 0..MaxAccepts}

NewSink(k) ==
    [kind |-> k.kind, accepts |-> k.accepts, bytes |-> <<>>, log |-> <<>>,
     refused |-> FALSE, result |-> "none"]

\* write_all(chunk): nothing is written, and nothing asked of the sink, for an
\* empty chunk; a refused write leaves the bytes as they were.
Write(w, chunk) ==
    IF chunk = <<>> THEN [ok |-> TRUE, w |-> w]
    ELSE IF w.kind = "Closing" /\ w.accepts = 0
    THEN [ok |-> FALSE,
          w |-> [w EXCEPT !.log = Append(@, chunk), !.refused = TRUE]]
    ELSE [ok |-> TRUE,
          w |-> [w EXCEPT !.bytes = @ \o chunk,
                          !.log = Append(@, chunk),
                          !.accepts = IF w.kind = "Closing" THEN @ - 1 ELSE @]]

-----------------------------------------------------------------------------
(* Results *)

DecodeOk(rest, val) == [status |-> "Ok", rest |-> rest, val |-> val]
DecodeErr(e) == [status |-> "Err", err |-> e]

\* DecodeError::IncompleteData: fewer bytes than a declared field needs.
IncompleteData == [kind |-> "IncompleteData"]
\* DecodeError for a text whose bytes are not UTF-8.
InvalidUtf8 == [kind |-> "Utf8Error"]
\* DecodeError::UnknownResponseCode(v)
UnknownResponseCode(v) == [kind |-> "UnknownResponseCode", value |-> v]

\* Option::unwrap() on None.
Panicked == [status |-> "Panic"]

Some(v) == [some |-> TRUE, v |-> v]

-----------------------------------------------------------------------------
(* Primitive codec (crate::codec, crate::types, crate::response) *)

\* Width in bytes of the length field of a text.
StrLenWidth == 2

\* <u32 as Encoder>::encode for CorrelationId: four bytes, big-endian.
CorrelationId_encode(w, id) == Write(w, BigEndian(id, 4))

CorrelationId_encoded_size == 4

\* ResponseCode::encode: the variant's numeric value, two bytes.
ResponseCode_encode(w, code) == Write(w, BigEndian(ResponseCodeTable[code], 2))

\* <&str as Encoder>::encode: the length field, then the UTF-8 bytes.
str_encode(w, s) ==
    LET r == Write(w, BigEndian(Len(Utf8(s)), StrLenWidth))
    IN  IF ~r.ok THEN r ELSE Write(r.w, Utf8(s))

\* The pairs of a map, written in the order `order` lists its keys.
RECURSIVE pairs_encode(_, _, _)
pairs_encode(w, m, order) ==
    IF order = <<>> THEN [ok |-> TRUE, w |-> w]
    ELSE LET rk == str_encode(w, Head(order))
         IN  IF ~rk.ok THEN rk
             ELSE LET rv == str_encode(rk.w, m[Head(order)])
                  IN  IF ~rv.ok THEN rv ELSE pairs_encode(rv.w, m, Tail(order))

\* <HashMap<String, String> as Encoder>::encode: the count, then every pair.
HashMap_encode(w, m, order) ==
    LET r == Write(w, BigEndian(Cardinality(DOMAIN m), 4))
    IN  IF ~r.ok THEN r ELSE pairs_encode(r.w, m, order)

\* The orders in which iterating a HashMap may yield its keys: any.
IterationOrders(m) ==
    {o \in [1..Cardinality(DOMAIN m) -> DOMAIN m] :
        \A a, b \in DOMAIN o : a # b => o[a] # o[b]}

\* read_u32 / read_u16: a fixed-width big-endian number and the remainder.
read_uint(in, width) ==
    IF Len(in) < width THEN DecodeErr(IncompleteData)
    ELSE DecodeOk(Drop(in, width), FromBigEndian(Take(in, width)))

read_u32(in) == read_uint(in, 4)
read_u16(in) == read_uint(in, 2)

CorrelationId_decode(in) == read_u32(in)

\* The variant whose numeric value is v.
ResponseCodeOf(v) == CHOOSE c \in ResponseCodes : ResponseCodeTable[c] = v

\* ResponseCode::decode: a value outside the table is an error.
ResponseCode_decode(in) ==
    LET r == read_u16(in)
    IN  IF r.status # "Ok" THEN r
        ELSE IF r.val \notin KnownCodeValues
        THEN DecodeErr(UnknownResponseCode(r.val))
        ELSE DecodeOk(r.rest, ResponseCodeOf(r.val))

\* Decoder::decode_str: the length field, then that many bytes as UTF-8.
decode_str(in) ==
    LET r == read_uint(in, StrLenWidth)
    IN  IF r.status # "Ok" THEN r
        ELSE IF Len(r.rest) < r.val THEN DecodeErr(IncompleteData)
        ELSE LET t == FromUtf8(Take(r.rest, r.val))
             IN  IF ~t.ok THEN DecodeErr(InvalidUtf8)
                 ELSE DecodeOk(Drop(r.rest, r.val), Some(t.s))

\* HashMap::insert: a later pair replaces an earlier one with the same key.
Insert(m, k, v) == [x \in DOMAIN m \cup {k} |-> IF x = k THEN v ELSE m[x]]

EmptyMap == [x \in {} |-> <<>>]

RECURSIVE decode_pairs(_, _, _)
decode_pairs(in, n, m) ==
    IF n = 0 THEN DecodeOk(in, m)
    ELSE LET rk == decode_str(in)
         IN  IF rk.status # "Ok" THEN rk
             ELSE LET rv == decode_str(rk.rest)
                  IN  IF rv.status # "Ok" THEN rv
                      ELSE decode_pairs(rv.rest, n - 1,
                                        Insert(m, rk.val.v, rv.val.v))

\* Decoder::decode_map: the count, then that many (key, value) texts.
decode_map(in) ==
    LET r == read_u32(in)
    IN  IF r.status # "Ok" THEN r ELSE decode_pairs(r.rest, r.val, EmptyMap)

-----------------------------------------------------------------------------
(* OpenCommand *)

\* OpenCommand::encode with the virtual host written before the id.
OpenCommand_encode_vhost_first(self, w) ==
    LET r1 == str_encode(w, self.virtual_host)
    IN  IF ~r1.ok THEN r1
        ELSE LET r2 == CorrelationId_encode(r1.w, self.correlation_id)
             IN  IF ~r2.ok THEN r2 ELSE [ok |-> TRUE, w |-> r2.w]

\* OpenCommand::encode with the result of the id write dropped (no `?`).
OpenCommand_encode_ignores_error(self, w) ==
    LET r1 == CorrelationId_encode(w, self.correlation_id)
        r2 == str_encode(r1.w, self.virtual_host)
    IN  IF ~r2.ok THEN r2 ELSE [ok |-> TRUE, w |-> r2.w]

\* impl Encoder for OpenCommand: encode
OpenCommand_encode(self, w) ==
    LET r1 == CorrelationId_encode(w, self.correlation_id)
    IN  IF ~r1.ok THEN r1
        ELSE LET r2 == str_encode(r1.w, self.virtual_host)
             IN  IF ~r2.ok THEN r2 ELSE [ok |-> TRUE, w |-> r2.w]

\* impl Encoder for OpenCommand: encoded_size
OpenCommand_encoded_size(self) ==
    CorrelationId_encoded_size + Len(Utf8(self.virtual_host))

\* impl Decoder for OpenCommand (tests)
OpenCommand_decode(in) ==
    LET r1 == read_u32(in)
    IN  IF r1.status # "Ok" THEN r1
        ELSE LET r2 == decode_str(r1.rest)
             IN  IF r2.status # "Ok" THEN r2
                 ELSE IF ~r2.val.some THEN Panicked
                 ELSE DecodeOk(r2.rest,
                               [shape |-> "OpenCommand",
                                correlation_id |-> r1.val,
                                virtual_host |-> r2.val.v])

-----------------------------------------------------------------------------
(* OpenResponse *)

\* OpenResponse::encode with the code written before the id.
OpenResponse_encode_code_first(self, w, order) ==
    LET r1 == ResponseCode_encode(w, self.code)
    IN  IF ~r1.ok THEN r1
        ELSE LET r2 == CorrelationId_encode(r1.w, self.correlation_id)
             IN  IF ~r2.ok THEN r2
                 ELSE LET r3 == HashMap_encode(r2.w, self.connection_properties,
                                               order)
                      IN  IF ~r3.ok THEN r3 ELSE [ok |-> TRUE, w |-> r3.w]

\* impl Encoder for OpenResponse (tests): encode
OpenResponse_encode(self, w, order) ==
    LET r1 == CorrelationId_encode(w, self.correlation_id)
    IN  IF ~r1.ok THEN r1
        ELSE LET r2 == ResponseCode_encode(r1.w, self.code)
             IN  IF ~r2.ok THEN r2
                 ELSE LET r3 == HashMap_encode(r2.w, self.connection_properties,
                                               order)
                      IN  IF ~r3.ok THEN r3 ELSE [ok |-> TRUE, w |-> r3.w]

\* impl Encoder for OpenResponse (tests): encoded_size
OpenResponse_encoded_size(self) == 0

\* OpenResponse::decode with the mapping read from the remainder left by the id,
\* not from the one left by the code.
OpenResponse_decode_wrong_remainder(in) ==
    LET r1 == CorrelationId_decode(in)
    IN  IF r1.status # "Ok" THEN r1
        ELSE LET r2 == ResponseCode_decode(r1.rest)
             IN  IF r2.status # "Ok" THEN r2
                 ELSE LET r3 == decode_map(r1.rest)
                      IN  IF r3.status # "Ok" THEN r3
                          ELSE DecodeOk(r3.rest,
                                        [shape |-> "OpenResponse",
                                         correlation_id |-> r1.val,
                                         code |-> r2.val,
                                         connection_properties |-> r3.val])

\* OpenResponse::decode returning the remainder left by the code, not the one
\* left by the mapping.
OpenResponse_decode_stale_rest(in) ==
    LET r1 == CorrelationId_decode(in)
    IN  IF r1.status # "Ok" THEN r1
        ELSE LET r2 == ResponseCode_decode(r1.rest)
             IN  IF r2.status # "Ok" THEN r2
                 ELSE LET r3 == decode_map(r2.rest)
                      IN  IF r3.status # "Ok" THEN r3
                          ELSE DecodeOk(r2.rest,
                                        [shape |-> "OpenResponse",
                                         correlation_id |-> r1.val,
                                         code |-> r2.val,
                                         connection_properties |-> r3.val])

\* OpenResponse::decode with decode_map(input).unwrap_or_default().
OpenResponse_decode_default_map(in) ==
    LET r1 == CorrelationId_decode(in)
    IN  IF r1.status # "Ok" THEN r1
        ELSE LET r2 == ResponseCode_decode(r1.rest)
             IN  IF r2.status # "Ok" THEN r2
                 ELSE LET r3 == decode_map(r2.rest)
                      IN  DecodeOk(IF r3.status = "Ok" THEN r3.rest ELSE r2.rest,
                                   [shape |-> "OpenResponse",
                                    correlation_id |-> r1.val,
                                    code |-> r2.val,
                                    connection_properties |->
                                        IF r3.status = "Ok" THEN r3.val
                                        ELSE EmptyMap])

\* OpenResponse::decode with a code outside the table read as Ok.
OpenResponse_decode_default_code(in) ==
    LET r1 == CorrelationId_decode(in)
    IN  IF r1.status # "Ok" THEN r1
        ELSE LET r2 == ResponseCode_decode(r1.rest)
             IN  IF r2.status # "Ok" /\ r2.err.kind # "UnknownResponseCode"
                 THEN r2
                 ELSE LET r3 == decode_map(Drop(r1.rest, 2))
                      IN  IF r3.status # "Ok" THEN r3
                          ELSE DecodeOk(r3.rest,
                                        [shape |-> "OpenResponse",
                                         correlation_id |-> r1.val,
                                         code |-> IF r2.status = "Ok"
                                                  THEN r2.val ELSE "Ok",
                                         connection_properties |-> r3.val])

\* impl Decoder for OpenResponse
OpenResponse_decode(in) ==
    LET r1 == CorrelationId_decode(in)
    IN  IF r1.status # "Ok" THEN r1
        ELSE LET r2 == ResponseCode_decode(r1.rest)
             IN  IF r2.status # "Ok" THEN r2
                 ELSE LET r3 == decode_map(r2.rest)
                      IN  IF r3.status # "Ok" THEN r3
                          ELSE DecodeOk(r3.rest,
                                        [shape |-> "OpenResponse",
                                         correlation_id |-> r1.val,
                                         code |-> r2.val,
                                         connection_properties |-> r3.val])

-----------------------------------------------------------------------------
(* The calls *)

encoded_size(x) ==
    IF x.shape = "OpenCommand" THEN OpenCommand_encoded_size(x)
    ELSE OpenResponse_encoded_size(x)

decode(shape, in) ==
    IF shape = "OpenCommand" THEN OpenCommand_decode(in)
    ELSE OpenResponse_decode(in)

Finish(r) == [r.w EXCEPT !.result = IF r.ok THEN "Ok" ELSE "Err"]

\* Bytes appended after a complete encoding.
ExtraBytes == {<<0>>, <<0, 97>>}

\* Bytes that may follow an unknown response code, besides the real mapping.
Tails == {<<>>, <<255>>}

Init ==
    /\ value \in OpenCommands \cup OpenResponses
    /\ size = [called |-> FALSE, n |-> 0]
    /\ sink \in [Sinks -> {NewSink(k) : k \in SinkKinds}]
    /\ input = [kind |-> "none"]
    /\ decoded = [status |-> "none"]

\* The transport sizes the frame before any bytes exist.
EncodedSize ==
    /\ ~size.called
    /\ size' = [called |-> TRUE, n |-> encoded_size(value)]
    /\ UNCHANGED <<value, sink, input, decoded>>

\* open.encode(&mut buffer) on the i-th buffer.
EncodeCommand(i) ==
    /\ value.shape = "OpenCommand"
    /\ size.called
    /\ sink[i].result = "none"
    /\ sink' = [sink EXCEPT ![i] = Finish(OpenCommand_encode(value, sink[i]))]
    /\ UNCHANGED <<value, size, input, decoded>>

\* open_response.encode(&mut buffer) on the i-th buffer.
EncodeResponse(i) ==
    /\ value.shape = "OpenResponse"
    /\ size.called
    /\ sink[i].result = "none"
    /\ \E order \in IterationOrders(value.connection_properties) :
          sink' = [sink EXCEPT
                     ![i] = Finish(OpenResponse_encode(value, sink[i], order))]
    /\ UNCHANGED <<value, size, input, decoded>>

Feed(in) ==
    /\ decoded.status = "none"
    /\ input' = in
    /\ decoded' = decode(value.shape, in.bytes)
    /\ UNCHANGED <<value, size, sink>>

\* The buffer the tests decode: the first one.  The second buffer belongs to
\* another encode call in flight.
buffer == sink[1]

\* decode(&buffer) of a complete encoding.
DecodeEncoding ==
    /\ buffer.result = "Ok"
    /\ Feed([kind |-> "full", bytes |-> buffer.bytes])

\* decode of a strict prefix of an encoding.
DecodePrefix ==
    /\ buffer.result = "Ok"
    /\ \E k \in 0..(Len(buffer.bytes) - 1) :
          Feed([kind |-> "prefix", bytes |-> Take(buffer.bytes, k),
                whole |-> buffer.bytes])

\* decode of an encoding followed by extra bytes.
DecodeTrailing ==
    /\ buffer.result = "Ok"
    /\ \E extra \in ExtraBytes :
          Feed([kind |-> "trailing", bytes |-> buffer.bytes \o extra,
                extra |-> extra])

\* decode of a response payload whose code field is outside the table.
DecodeUnknownCode ==
    /\ buffer.result = "Ok"
    /\ value.shape = "OpenResponse"
    /\ \E v \in UnknownCodeValues, tail \in Tails \cup {Drop(buffer.bytes, 6)} :
          Feed([kind |-> "unknown_code",
                bytes |-> Take(buffer.bytes, 4) \o BigEndian(v, 2) \o tail,
                code |-> v, tail |-> tail])

Next ==
    \/ EncodedSize
    \/ \E i \in Sinks : EncodeCommand(i)
    \/ \E i \in Sinks : EncodeResponse(i)
    \/ DecodeEncoding
    \/ DecodePrefix
    \/ DecodeTrailing
    \/ DecodeUnknownCode

Spec == Init /\ [][Next]_vars

-----------------------------------------------------------------------------
(* The claims *)

IsCommand == value.shape = "OpenCommand"
IsResponse == value.shape = "OpenResponse"

\* C1: size fidelity of the open request: encoded_size() of an OpenCommand is
\* the number of bytes its encode() writes (id, length field, text bytes).
SizeFidelityOpenCommand ==
    \A i \in Sinks :
        IsCommand /\ sink[i].result = "Ok" => size.n = Len(sink[i].bytes)

\* C2: size fidelity of the open response: encoded_size() of an OpenResponse
\* is the number of bytes its encode() writes.
SizeFidelityOpenResponse ==
    \A i \in Sinks :
        IsResponse /\ sink[i].result = "Ok" => size.n = Len(sink[i].bytes)

\* C3: round trip of the open request: decoding the bytes encode() wrote gives
\* back the OpenCommand and an empty remaining slice.
RoundTripOpenCommand ==
    IsCommand /\ input.kind = "full" => decoded = DecodeOk(<<>>, value)

RoundTripOpenCommandWitness ==
    /\ IsCommand
    /\ input.kind = "full"
    /\ decoded.status = "Ok"
    /\ value.virtual_host = <<233, 97>>
    /\ value.correlation_id = 16909060

\* C4: round trip of the open response: decoding the bytes encode() wrote, in
\* whatever order the pairs were written, gives an empty remaining slice, the
\* same id, the same code and a mapping with exactly the same pairs.
RoundTripOpenResponse ==
    IsResponse /\ input.kind = "full" =>
        /\ decoded.status = "Ok"
        /\ decoded.rest = <<>>
        /\ decoded.val.correlation_id = value.correlation_id
        /\ decoded.val.code = value.code
        /\ DOMAIN decoded.val.connection_properties
             = DOMAIN value.connection_properties
        /\ \A k \in DOMAIN value.connection_properties :
              decoded.val.connection_properties[k]
                = value.connection_properties[k]

\* Two buffers hold the same two-entry response with the pairs in different
\* orders, and one of them has been decoded.
RoundTripOpenResponseWitness ==
    /\ IsResponse
    /\ input.kind = "full"
    /\ decoded.status = "Ok"
    /\ Cardinality(DOMAIN value.connection_properties) = 2
    /\ sink[1].result = "Ok"
    /\ sink[2].result = "Ok"
    /\ sink[1].bytes # sink[2].bytes

\* C5, as claimed: OpenResponse::decode of a complete encoding followed by
\* extra bytes is a "payload not fully consumed" error, never Ok with a
\* non-empty remaining slice.
TrailingBytesRejected ==
    IsResponse /\ input.kind = "trailing" =>
        /\ decoded.status = "Err"
        /\ decoded.err.kind = "PayloadNotFullyConsumed"

\* C5, amended: OpenResponse::decode of a complete encoding followed by extra
\* bytes returns Ok with the encoded value and, as the remaining slice, exactly
\* the extra bytes.
TrailingBytesReturned ==
    IsResponse /\ input.kind = "trailing" =>
        decoded = DecodeOk(input.extra, value)

TrailingBytesWitness ==
    /\ IsResponse
    /\ input.kind = "trailing"
    /\ decoded.status = "Ok"
    /\ Len(decoded.rest) = 2
    /\ value.connection_properties # EmptyMap

\* C6: truncation safety: decode of a strict prefix of an OpenCommand or
\* OpenResponse encoding is the insufficient-data error, never a panic and
\* never Ok.
TruncationSafety ==
    input.kind = "prefix" => decoded = DecodeErr(IncompleteData)

\* A two-entry response cut one byte short, inside its last pair.
TruncationWitness ==
    /\ IsResponse
    /\ input.kind = "prefix"
    /\ Cardinality(DOMAIN value.connection_properties) = 2
    /\ Len(input.bytes) = Len(input.whole) - 1
    /\ decoded.status = "Err"

\* C7: unknown-code safety: a response payload whose code field is outside the
\* table decodes to the unknown-response-code error carrying that number,
\* whatever bytes follow; the mapping is not decoded.
UnknownCodeSafety ==
    input.kind = "unknown_code" =>
        decoded = DecodeErr(UnknownResponseCode(input.code))

\* The bytes after the unknown code are a valid non-empty mapping.
UnknownCodeWitness ==
    /\ input.kind = "unknown_code"
    /\ input.code = 65535
    /\ decode_map(input.tail).status = "Ok"
    /\ value.connection_properties # EmptyMap
    /\ decoded.status = "Err"

\* C8: determinism of encoding: two encode calls on the same value, each on
\* its own buffer, write identical bytes.
EncodeDeterministic ==
    \A i, j \in Sinks :
        sink[i].result = "Ok" /\ sink[j].result = "Ok" =>
            sink[i].bytes = sink[j].bytes

\* The layout of a response payload b for the value under test: its first four
\* bytes are the id, the next two the code, the rest the mapping; the id and
\* the code decode from the first six bytes alone; and OpenResponse::decode is
\* the three field decoders in that order, each on the remainder of the last.
ResponseLayout(b) ==
    LET r1 == CorrelationId_decode(b)
        r2 == ResponseCode_decode(r1.rest)
        r3 == decode_map(r2.rest)
        p1 == CorrelationId_decode(Take(b, 6))
    IN  /\ Take(b, 4) = BigEndian(value.correlation_id, 4)
        /\ SubSeq(b, 5, 6) = BigEndian(ResponseCodeTable[value.code], 2)
        /\ r1 = DecodeOk(Drop(b, 4), value.correlation_id)
        /\ r2 = DecodeOk(Drop(b, 6), value.code)
        /\ r3 = DecodeOk(<<>>, value.connection_properties)
        /\ p1.status = "Ok" /\ p1.val = value.correlation_id
        /\ ResponseCode_decode(p1.rest) = DecodeOk(<<>>, value.code)
        /\ OpenResponse_decode(b)
             = DecodeOk(r3.rest,
                        [shape |-> "OpenResponse",
                         correlation_id |-> r1.val,
                         code |-> r2.val,
                         connection_properties |-> r3.val])

\* C9: fixed prefix and field order of a response: every OpenResponse::encode
\* that returns Ok has written the id, then the code, then the mapping; the id
\* and the code decode from the start of the payload without the mapping
\* bytes, and OpenResponse::decode reads the fields in that same order.
ResponsePrefixOrder ==
    [][\A i \in Sinks :
          IsResponse /\ sink[i].result = "none" /\ sink'[i].result = "Ok" =>
              ResponseLayout(sink'[i].bytes)]_vars

ResponsePrefixOrderWitness ==
    \E i \in Sinks :
        /\ IsResponse
        /\ sink[i].result = "Ok"
        /\ value.code = "AccessRefused"
        /\ value.correlation_id = 16909060
        /\ Cardinality(DOMAIN value.connection_properties) = 2

\* After an OpenCommand::encode call: it returned Err exactly when the sink
\* refused a write, and when the refused write was that of the id, it was the
\* only write attempted.
EncodeResultFollowsSink ==
    \A i \in Sinks :
        IsCommand /\ sink[i].result # "none" =>
            /\ sink[i].refused <=> sink[i].result = "Err"
            /\ sink[i].result = "Err" /\ sink[i].bytes = <<>> =>
                  sink[i].log = <<BigEndian(value.correlation_id, 4)>>

\* A failed encode on one buffer changes no other buffer.
FailedEncodeLeavesOthers ==
    \A i \in Sinks :
        sink[i].result = "none" /\ sink'[i].result = "Err" =>
            \A j \in Sinks \ {i} : sink'[j] = sink[j]

\* C10: encode failure propagation: when the sink refuses a write during
\* OpenCommand::encode the call returns that error and never Ok; after a
\* refused id write no write of the virtual host is attempted; and a failed
\* encode leaves every other buffer unchanged.
EncodeFailurePropagates ==
    [][EncodeResultFollowsSink' /\ FailedEncodeLeavesOthers]_vars

\* One buffer refused the id write after the other was filled.
EncodeFailureWitness ==
    \E i, j \in Sinks :
        /\ IsCommand
        /\ sink[i].result = "Err"
        /\ sink[i].bytes = <<>>
        /\ sink[i].log # <<>>
        /\ sink[j].result = "Ok"
        /\ Len(sink[j].bytes) > 6

====
